---- MODULE Spec2Model ----
(***************************************************************************)
(* Model of the company-news gateway (src/server.js and its earlier        *)
(* variant src/nodejs-backend.js): three request handlers, each of which   *)
(* issues one outbound call (NewsAPI or Alpha Vantage), awaits the reply   *)
(* and answers with a status and a JSON body.                              *)
(*                                                                         *)
(* JavaScript strings are sequences of one-character strings, so that      *)
(* toLowerCase, trim, includes, split and length are computed.  The value  *)
(* `undefined` (a missing property) is Undef.                              *)
(***************************************************************************)
EXTENDS Integers, Sequences, FiniteSets, TLC

VARIABLES pc, endpoint, param, calls, reply, status, body

vars == <<pc, endpoint, param, calls, reply, status, body>>

(***************************************************************************)
(* Bounds of the model and constants of the program.                       *)
(***************************************************************************)
MaxShortList == 2   \* raw article lists of every article kind, up to this length
MaxLongList == 10    \* raw article lists of the two plain kinds, up to this length
MaxMatches == 3     \* bestMatches lists, up to this length

NewsCap == 8        \* .slice(0, 8)

(***************************************************************************)
(* JavaScript values and string functions.                                 *)
(***************************************************************************)
Undef == <<"undefined">>

\* JS truthiness of a string-or-undefined value
Truthy(v) == v # Undef /\ v # <<>>

\* a || b
OrElse(a, b) == IF Truthy(a) THEN a ELSE b

UpperChars == <<"A","B","C","D","E","F","G","H","I","J","K","L","M",
                "N","O","P","Q","R","S","T","U","V","W","X","Y","Z">>
LowerChars == <<"a","b","c","d","e","f","g","h","i","j","k","l","m",
                "n","o","p","q","r","s","t","u","v","w","x","y","z">>

LowerChar(c) ==
    IF \E i \in 1..26 : UpperChars[i] = c
    THEN LowerChars[CHOOSE i \in 1..26 : UpperChars[i] = c]
    ELSE c

UpperChar(c) ==
    IF \E i \in 1..26 : LowerChars[i] = c
    THEN UpperChars[CHOOSE i \in 1..26 : LowerChars[i] = c]
    ELSE c

\* String.prototype.toLowerCase / toUpperCase
ToLowerCase(s) == [i \in 1..Len(s) |-> LowerChar(s[i])]
ToUpperCase(s) == [i \in 1..Len(s) |-> UpperChar(s[i])]

\* String.prototype.trim
Trim(s) ==
    LET idx == {i \in 1..Len(s) : s[i] # " "}
    IN  IF idx = {} THEN <<>>
        ELSE LET lo == CHOOSE i \in idx : \A j \in idx : i <= j
                 hi == CHOOSE i \in idx : \A j \in idx : i >= j
             IN  SubSeq(s, lo, hi)

\* String.prototype.includes
Includes(s, sub) ==
    \E i \in 0..(Len(s) - Len(sub)) : SubSeq(s, i + 1, i + Len(sub)) = sub

\* s.split('T')[0]
SplitT0(s) ==
    LET idx == {i \in 1..Len(s) : s[i] = "T"}
    IN  IF idx = {} THEN s
        ELSE SubSeq(s, 1, (CHOOSE i \in idx : \A j \in idx : i <= j) - 1)

\* Array.prototype.slice(0, n)
Slice0(seq, n) == SubSeq(seq, 1, IF Len(seq) < n THEN Len(seq) ELSE n)

(***************************************************************************)
(* News endpoint: GET /api/company-news/:companyName                       *)
(***************************************************************************)
\* article.source is an object with a name, missing, or (in a PublicArticle)
\* a plain string
SourceObj(n) == [t |-> "obj", name |-> n, v |-> Undef]
SourceStr(s) == [t |-> "str", name |-> Undef, v |-> s]
SourceUndef == [t |-> "undef", name |-> Undef, v |-> Undef]

\* article.source?.name
SourceNameOfString(src) == IF src.t = "obj" THEN src.name ELSE src.v
SourceName(src) == IF src.t = "obj" THEN src.name ELSE Undef

RemovedSentinel == <<"[","R","e","m","o","v","e","d","]">>
RemovedWord == <<"r","e","m","o","v","e","d">>
NoSummary == <<"N","o"," ","s","u","m","m","a","r","y">>
CurrentDate == <<"2","6","-","1","1","-","0","4">>

\* the filter predicate of formattedNews
KeepArticleNoCaseFold(a) ==
    /\ Truthy(a.title)
    /\ Truthy(SourceName(a.source))
    /\ a.title # RemovedSentinel
    /\ ~Includes(a.title, RemovedWord)

KeepArticle(a) ==
    /\ Truthy(a.title)
    /\ Truthy(SourceName(a.source))
    /\ a.title # RemovedSentinel
    /\ ~Includes(ToLowerCase(a.title), RemovedWord)

\* the map callback of formattedNews
PublicArticle(a) ==
    [title    |-> a.title,
     source   |-> a.source.name,
     date     |-> IF Truthy(a.publishedAt) THEN SplitT0(a.publishedAt) ELSE CurrentDate,
     summary  |-> OrElse(a.description, NoSummary),
     url      |-> a.url,
     imageUrl |-> a.urlToImage]

MapPublic(seq) == [i \in 1..Len(seq) |-> PublicArticle(seq[i])]

\* articles.filter(...)
RECURSIVE FilterArticles(_)
FilterArticles(seq) ==
    IF seq = <<>> THEN <<>>
    ELSE IF KeepArticle(Head(seq)) THEN <<Head(seq)>> \o FilterArticles(Tail(seq))
         ELSE FilterArticles(Tail(seq))

\* articles.filter(...).slice(0, 8).map(...)
FormatNewsNoSlice(articles) == MapPublic(FilterArticles(articles))
FormatNews(articles) == MapPublic(Slice0(FilterArticles(articles), NewsCap))

\* raw articles the news provider may deliver; url tells positions apart
DigitChars == <<"0","1","2","3","4","5","6","7","8","9">>
Url(i) == <<"u", DigitChars[(i \div 10) + 1], DigitChars[(i % 10) + 1]>>

ArticleKinds == {"full", "bare", "sentinel", "REMOVED", "noTitle", "emptyTitle",
                 "noSource", "emptySourceName"}
PlainKinds == {"full", "REMOVED"}

TitleOf(k) ==
    CASE k = "sentinel"   -> RemovedSentinel
      [] k = "REMOVED"    -> <<"P","o","s","t"," ","R","E","M","O","V","E","D">>
      [] k = "noTitle"    -> Undef
      [] k = "emptyTitle" -> <<>>
      [] k = "bare"       -> <<"N","e","w","s">>
      [] OTHER            -> <<"F","o","r","d"," ","u","p">>

SourceOf(k) ==
    CASE k = "noSource"        -> SourceUndef
      [] k = "emptySourceName" -> SourceObj(<<>>)
      [] k = "bare"            -> SourceObj(<<"A","P">>)
      [] OTHER                 -> SourceObj(<<"B","B","C">>)

RawArticle(k, i) ==
    [title       |-> TitleOf(k),
     source      |-> SourceOf(k),
     publishedAt |-> IF k = "bare" THEN Undef
                     ELSE <<"2","6","-","0","1","-","0","2","T","0","9","Z">>,
     description |-> IF k = "bare" THEN Undef ELSE <<"d","e","s","c">>,
     url         |-> Url(i),
     urlToImage  |-> IF k = "bare" THEN Undef ELSE <<"i","m","g">>]

KindLists(kinds, n) == UNION {[1..m -> kinds] : m \in 0..n}

RawArticleLists ==
    {[i \in 1..Len(ks) |-> RawArticle(ks[i], i)] :
        ks \in KindLists(ArticleKinds, MaxShortList) \cup KindLists(PlainKinds, MaxLongList)}

\* outcomes of the awaited axios.get: a 2xx response with its data, or a
\* rejection (errStatus 0: no response at all, as on timeout or network failure)
NewsFailureStatuses == {0, 401, 426, 429, 500}

NewsReplies ==
    {[kind |-> "ok", articlesDefined |-> TRUE, articles |-> as, totalResults |-> Len(as),
      errStatus |-> 0] : as \in RawArticleLists}
    \cup {[kind |-> "ok", articlesDefined |-> FALSE, articles |-> <<>>, totalResults |-> 0,
           errStatus |-> 0]}
    \cup {[kind |-> "fail", articlesDefined |-> FALSE, articles |-> <<>>, totalResults |-> 0,
           errStatus |-> st] : st \in NewsFailureStatuses}

NoBody == [kind |-> "none"]
NoReply == [kind |-> "none"]

\* the catch block of the news handler
NewsCatchAlways500(r) ==
    [status |-> 500, body |-> [kind |-> "error", error |-> "Failed to fetch company news"]]

NewsCatch(r) ==
    IF r.errStatus = 426
    THEN [status |-> 426,
          body |-> [kind |-> "error", error |-> "NewsAPI requires upgrade for this request"]]
    ELSE [status |-> 500, body |-> [kind |-> "error", error |-> "Failed to fetch company news"]]

\* the news handler from the resolution or rejection of the awaited call on
NewsHandler(companyName, r) ==
    IF r.kind = "fail" THEN NewsCatch(r)
    ELSE [status |-> 200,
          body |-> [kind         |-> "news",
                    companyName  |-> companyName,
                    totalResults |-> r.totalResults,
                    news         |-> FormatNews(IF r.articlesDefined THEN r.articles
                                                ELSE <<>>)]]

(***************************************************************************)
(* Fundamentals endpoint: GET /api/company-info/:symbol                    *)
(***************************************************************************)
SomeText == <<"t","e","x","t">>
FieldValues == {Undef, <<>>, SomeText}

SymbolParams == {<<"a","a","p","l">>, <<"F">>}

\* outcomes of the awaited OVERVIEW call: an object payload, a payload that
\* is not an object (null), or a rejection
InfoReplies ==
    {[kind |-> "ok", Note |-> n, Information |-> inf, Name |-> nm, Symbol |-> sy,
      Sector |-> d, Industry |-> d, MarketCapitalization |-> d, Description |-> d,
      Exchange |-> d, Country |-> d] :
        n \in FieldValues, inf \in FieldValues, nm \in FieldValues, sy \in FieldValues,
        d \in {Undef, SomeText}}
    \cup {[kind |-> k, Note |-> Undef, Information |-> Undef, Name |-> Undef,
           Symbol |-> Undef, Sector |-> Undef, Industry |-> Undef,
           MarketCapitalization |-> Undef, Description |-> Undef, Exchange |-> Undef,
           Country |-> Undef] : k \in {"null", "fail"}}

NotAvailable == <<"N","/","A">>
UnknownCompany == <<"U","n","k","n","o","w","n">>
NoDescription == <<"N","o"," ","d","e","s","c">>
AnnualReportSuffix == <<" ","2","0","2","3">>
EdgarSearch == <<"e","d","g","a","r","=">>

\* annualReport: the reference object, or null
NoAnnualReport == [present |-> FALSE, year |-> Undef, title |-> Undef, url |-> Undef]
AnnualReport(name) ==
    [present |-> TRUE, year |-> <<"2","0","2","3">>, title |-> name \o AnnualReportSuffix,
     url |-> EdgarSearch \o name]

InfoError(st, msg) ==
    [status |-> st,
     body |-> [kind |-> "error", error |-> msg, name |-> Undef, symbol |-> Undef,
               sector |-> Undef, industry |-> Undef, marketCap |-> Undef,
               description |-> Undef, exchange |-> Undef, country |-> Undef,
               annualReport |-> NoAnnualReport]]

\* const companyInfo = {...}
CompanyInfo(symbol, data) ==
    [kind         |-> "companyInfo",
     error        |-> "",
     name         |-> OrElse(data.Name, UnknownCompany),
     symbol       |-> OrElse(data.Symbol, ToUpperCase(symbol)),
     sector       |-> OrElse(data.Sector, NotAvailable),
     industry     |-> OrElse(data.Industry, NotAvailable),
     marketCap    |-> OrElse(data.MarketCapitalization, NotAvailable),
     description  |-> OrElse(data.Description, NoDescription),
     exchange     |-> OrElse(data.Exchange, NotAvailable),
     country      |-> OrElse(data.Country, NotAvailable),
     annualReport |-> IF Truthy(data.Symbol) THEN AnnualReport(OrElse(data.Name, symbol))
                      ELSE NoAnnualReport]

\* the fundamentals handler from the settling of the awaited call on; reading
\* data.Note of a null payload throws into the catch block
InfoHandlerInformationFirst(symbol, r) ==
    IF r.kind # "ok" THEN InfoError(500, "Failed to fetch company information")
    ELSE IF Truthy(r.Information) THEN InfoError(400, "API request issue")
    ELSE IF Truthy(r.Note) THEN InfoError(429, "API rate limit reached")
    ELSE IF ~Truthy(r.Name) /\ ~Truthy(r.Symbol) THEN InfoError(404, "Company not found")
    ELSE [status |-> 200, body |-> CompanyInfo(symbol, r)]

InfoHandler(symbol, r) ==
    IF r.kind # "ok" THEN InfoError(500, "Failed to fetch company information")
    ELSE IF Truthy(r.Note) THEN InfoError(429, "API rate limit reached")
    ELSE IF Truthy(r.Information) THEN InfoError(400, "API request issue")
    ELSE IF ~Truthy(r.Name) /\ ~Truthy(r.Symbol) THEN InfoError(404, "Company not found")
    ELSE [status |-> 200, body |-> CompanyInfo(symbol, r)]

(***************************************************************************)
(* Symbol resolution: GET /api/search-symbol/:companyName                  *)
(***************************************************************************)
UnitedStates == <<"U","n","i","t","e","d"," ","S","t","a","t","e","s">>
Equity == <<"E","q","u","i","t","y">>
USD == <<"U","S","D">>
AppleKey == <<"a","p","p","l","e">>
AppleInc == <<"a","p","p","l","e"," ","i","n","c">>

\* const commonCompanies = {...}
CommonCompaniesWithoutApple ==
    (<<"m","i","c","r","o","s","o","f","t">> :> <<"M","S","F","T">>)
    @@ (<<"g","o","o","g","l","e">> :> <<"G","O","O","G","L">>)
    @@ (<<"a","l","p","h","a","b","e","t">> :> <<"G","O","O","G","L">>)
    @@ (<<"t","e","s","l","a">> :> <<"T","S","L","A">>)
    @@ (<<"a","m","a","z","o","n">> :> <<"A","M","Z","N">>)
    @@ (<<"m","e","t","a">> :> <<"M","E","T","A">>)
    @@ (<<"f","a","c","e","b","o","o","k">> :> <<"M","E","T","A">>)
    @@ (<<"n","e","t","f","l","i","x">> :> <<"N","F","L","X">>)
    @@ (<<"n","v","i","d","i","a">> :> <<"N","V","D","A">>)

CommonCompanies ==
    (AppleKey :> <<"A","A","P","L">>)
    @@ (<<"m","i","c","r","o","s","o","f","t">> :> <<"M","S","F","T">>)
    @@ (<<"g","o","o","g","l","e">> :> <<"G","O","O","G","L">>)
    @@ (<<"a","l","p","h","a","b","e","t">> :> <<"G","O","O","G","L">>)
    @@ (<<"t","e","s","l","a">> :> <<"T","S","L","A">>)
    @@ (<<"a","m","a","z","o","n">> :> <<"A","M","Z","N">>)
    @@ (<<"m","e","t","a">> :> <<"M","E","T","A">>)
    @@ (<<"f","a","c","e","b","o","o","k">> :> <<"M","E","T","A">>)
    @@ (<<"n","e","t","f","l","i","x">> :> <<"N","F","L","X">>)
    @@ (<<"n","v","i","d","i","a">> :> <<"N","V","D","A">>)

\* const searchKey = companyName.toLowerCase().trim()
SearchKeyUntrimmed(companyName) == ToLowerCase(companyName)
SearchKey(companyName) == Trim(ToLowerCase(companyName))

\* entries of bestMatches: objects, or null (a malformed entry)
Match(sy, nm, ty, rg) ==
    [t |-> "obj", symbol |-> sy, name |-> nm, type |-> ty, region |-> rg, currency |-> USD]
NullMatch ==
    [t |-> "null", symbol |-> Undef, name |-> Undef, type |-> Undef, region |-> Undef,
     currency |-> Undef]

MatchPool ==
    {Match(<<"A","P","L","E">>, <<"A","p","p","l","e"," ","H","o","s","p">>, Equity,
           UnitedStates),
     Match(<<"A","A","P","L">>, <<"A","p","p","l","e"," ","I","n","c">>,
           <<"C","o","m","m","o","n"," ","E","q","u","i","t","y">>, UnitedStates),
     Match(<<"F">>, <<"F","o","r","d"," ","M","o","t","o","r">>, Equity, UnitedStates),
     Match(<<"F","C">>, <<"F","o","r","d"," ","C","o">>, Equity, UnitedStates),
     Match(<<"F","M">>, <<"F","O","R","D"," ","M","o">>, Equity, UnitedStates),
     Match(<<"F","D">>, <<"F","o","r","d"," ","A","G">>, Equity,
           <<"F","r","a","n","k","f","u","r","t">>),
     Match(<<"F","F">>, <<"F","o","r","d">>, <<"E","T","F">>, UnitedStates),
     Match(<<"X">>, Undef, Equity, UnitedStates),
     NullMatch}

MatchLists == UNION {[1..m -> MatchPool] : m \in 0..MaxMatches}

\* outcomes of the awaited SYMBOL_SEARCH call: an object payload (with or
\* without Note; bestMatches an array, missing, or a value that cannot be
\* iterated), a payload that is not an object (null), or a rejection
SearchReplies ==
    {[kind |-> "ok", Note |-> Undef, matchesKind |-> "array", matches |-> ms] :
        ms \in MatchLists}
    \cup {[kind |-> "ok", Note |-> n, matchesKind |-> mk, matches |-> <<>>] :
            n \in FieldValues, mk \in {"undef", "scalar"}}
    \cup {[kind |-> "ok", Note |-> SomeText, matchesKind |-> "array", matches |-> ms] :
            ms \in {l \in MatchLists : Len(l) <= 1}}
    \cup {[kind |-> k, Note |-> Undef, matchesKind |-> "undef", matches |-> <<>>] :
            k \in {"null", "fail"}}

SearchBody(kind, sy, nm, ty, rg, cu, src, msg, fb, sugg) ==
    [kind |-> kind, symbol |-> sy, name |-> nm, type |-> ty, region |-> rg,
     currency |-> cu, source |-> src, message |-> msg, fallback |-> fb,
     suggestion |-> sugg]

NullSymbolBody(msg, fb, sugg) ==
    SearchBody("nullSymbol", Undef, Undef, Undef, Undef, Undef, "", msg, fb, sugg)

\* the catch block of the symbol handler: res.json without a status
SearchCatchStatus500 ==
    [status |-> 500, body |-> NullSymbolBody("Symbol search failed", TRUE, FALSE)]

SearchCatch ==
    [status |-> 200, body |-> NullSymbolBody("Symbol search failed", TRUE, FALSE)]

RateLimitedBody ==
    NullSymbolBody("Symbol search temporarily unavailable due to API limits", TRUE, FALSE)

NoMatchBody == NullSymbolBody("No matching stock symbol found", FALSE, TRUE)

\* the direct-match answer
DirectMatch(companyName) ==
    SearchBody("match", CommonCompanies[SearchKey(companyName)], companyName, Equity,
               UnitedStates, USD, "direct_match", "", FALSE, FALSE)

\* const result = {...} built from topMatch
ApiResult(m, src) ==
    SearchBody("match", m.symbol, m.name, m.type, m.region, m.currency, src, "", FALSE,
               FALSE)

\* the condition of the topMatch loop of server.js
Qualifies(m, searchKey) ==
    /\ Includes(ToLowerCase(OrElse(m.name, <<>>)), searchKey)
    /\ OrElse(m.region, <<>>) = UnitedStates
    /\ Includes(OrElse(m.type, <<>>), Equity)

\* for (const match of matches) {...} of server.js from entry i on, with the
\* topMatch so far; a null entry throws
RECURSIVE TopMatchLoopLastShortest(_, _, _, _)
TopMatchLoopLastShortest(matches, i, topMatch, searchKey) ==
    IF i > Len(matches) THEN [threw |-> FALSE, top |-> topMatch]
    ELSE LET m == matches[i]
             matchName == ToLowerCase(OrElse(m.name, <<>>))
         IN  IF m.t = "null" THEN [threw |-> TRUE, top |-> NullMatch]
             ELSE IF Qualifies(m, searchKey)
             THEN IF searchKey = AppleKey /\ Includes(matchName, AppleInc)
                  THEN [threw |-> FALSE, top |-> m]
                  ELSE IF topMatch.t = "null"
                          \/ Len(matchName) <= Len(OrElse(topMatch.name, <<>>))
                       THEN TopMatchLoopLastShortest(matches, i + 1, m, searchKey)
                       ELSE TopMatchLoopLastShortest(matches, i + 1, topMatch, searchKey)
             ELSE TopMatchLoopLastShortest(matches, i + 1, topMatch, searchKey)

RECURSIVE TopMatchLoop(_, _, _, _)
TopMatchLoop(matches, i, topMatch, searchKey) ==
    IF i > Len(matches) THEN [threw |-> FALSE, top |-> topMatch]
    ELSE LET m == matches[i]
             matchName == ToLowerCase(OrElse(m.name, <<>>))
         IN  IF m.t = "null" THEN [threw |-> TRUE, top |-> NullMatch]
             ELSE IF Qualifies(m, searchKey)
             THEN IF searchKey = AppleKey /\ Includes(matchName, AppleInc)
                  THEN [threw |-> FALSE, top |-> m]
                  ELSE IF topMatch.t = "null"
                          \/ Len(matchName) < Len(OrElse(topMatch.name, <<>>))
                       THEN TopMatchLoop(matches, i + 1, m, searchKey)
                       ELSE TopMatchLoop(matches, i + 1, topMatch, searchKey)
             ELSE TopMatchLoop(matches, i + 1, topMatch, searchKey)

\* the answer without the first-match fallback
BestMatchAnswerNoFallback(matches, searchKey) ==
    LET loop == TopMatchLoop(matches, 1, NullMatch, searchKey)
    IN  IF loop.threw THEN SearchCatch
        ELSE IF loop.top.t # "null"
             THEN [status |-> 200, body |-> ApiResult(loop.top, "api_search")]
             ELSE [status |-> 200, body |-> NoMatchBody]

\* from `let topMatch = null` to the answer
BestMatchAnswer(matches, searchKey) ==
    LET loop == TopMatchLoop(matches, 1, NullMatch, searchKey)
        top  == IF loop.top.t = "null" /\ Len(matches) > 0 THEN matches[1] ELSE loop.top
    IN  IF loop.threw THEN SearchCatch
        ELSE IF top.t # "null"
             THEN [status |-> 200, body |-> ApiResult(top, "api_search")]
             ELSE [status |-> 200, body |-> NoMatchBody]

\* the symbol handler of server.js from the settling of the awaited call on
SearchHandler(companyName, r) ==
    IF r.kind # "ok" THEN SearchCatch
    ELSE IF Truthy(r.Note) THEN [status |-> 200, body |-> RateLimitedBody]
    ELSE IF SearchKey(companyName) \in DOMAIN CommonCompanies
         THEN [status |-> 200, body |-> DirectMatch(companyName)]
    ELSE IF r.matchesKind = "scalar" THEN SearchCatch
    ELSE BestMatchAnswer(r.matches, SearchKey(companyName))

\* for (const match of matches) {...} of nodejs-backend.js: the first United
\* States equity, whatever its name
RECURSIVE LegacyTopMatchLoop(_, _)
LegacyTopMatchLoop(matches, i) ==
    IF i > Len(matches) THEN [threw |-> FALSE, top |-> NullMatch]
    ELSE LET m == matches[i]
         IN  IF m.t = "null" THEN [threw |-> TRUE, top |-> NullMatch]
             ELSE IF OrElse(m.region, <<>>) = UnitedStates
                     /\ Includes(OrElse(m.type, <<>>), Equity)
                  THEN [threw |-> FALSE, top |-> m]
                  ELSE LegacyTopMatchLoop(matches, i + 1)

\* the symbol handler of nodejs-backend.js from the settling of the call on
LegacySearchHandler(companyName, r) ==
    IF r.kind # "ok" THEN SearchCatch
    ELSE IF Truthy(r.Note) THEN [status |-> 200, body |-> RateLimitedBody]
    ELSE IF r.matchesKind = "scalar" THEN SearchCatch
    ELSE LET loop == LegacyTopMatchLoop(r.matches, 1)
             top  == IF loop.top.t = "null" /\ Len(r.matches) > 0 THEN r.matches[1]
                     ELSE loop.top
         IN  IF loop.threw THEN SearchCatch
             ELSE IF top.t # "null" THEN [status |-> 200, body |-> ApiResult(top, "")]
                  ELSE [status |-> 200, body |-> NoMatchBody]

(***************************************************************************)
(* The requests.                                                           *)
(***************************************************************************)
CompanyNames ==
    {<<" ","A","p","P","L","e"," ">>,
     <<"a","p","p","l","e">>,
     <<"T","e","s","l","a">>,
     <<"F","o","r","d">>,
     <<"f","o","r","d"," ">>,
     <<"A","p","p","l","e"," ","I","n","c">>,
     <<" ">>}

\* the news handler and the symbol handler of nodejs-backend.js do nothing
\* with the name but pass it on
PlainNames == {<<" ","A","p","P","L","e"," ">>, <<"F","o","r","d">>}

Init ==
    /\ pc = "idle"
    /\ endpoint = "none"
    /\ param = <<>>
    /\ calls = 0
    /\ reply = NoReply
    /\ status = 0
    /\ body = NoBody

\* the awaited call settles with r and the handler answers
Respond(r, answer) ==
    /\ reply' = r
    /\ status' = answer.status
    /\ body' = answer.body
    /\ pc' = "done"
    /\ UNCHANGED <<endpoint, param, calls>>

\* the awaited call is rejected and the handler issues it once more
Retry(r) ==
    /\ r.kind = "fail"
    /\ calls = 1
    /\ calls' = calls + 1
    /\ UNCHANGED <<pc, endpoint, param, reply, status, body>>

\* the news handler up to its await: one axios.get is issued
NewsRequest ==
    /\ pc = "idle"
    /\ \E x \in PlainNames : param' = x
    /\ endpoint' = "news"
    /\ calls' = calls + 1
    /\ pc' = "awaiting"
    /\ UNCHANGED <<reply, status, body>>

NewsRespond ==
    /\ pc = "awaiting"
    /\ endpoint = "news"
    /\ \E r \in NewsReplies : Respond(r, NewsHandler(param, r))

\* the fundamentals handler up to its await: one axios.get is issued
InfoRequest ==
    /\ pc = "idle"
    /\ \E x \in SymbolParams : param' = x
    /\ endpoint' = "info"
    /\ calls' = calls + 1
    /\ pc' = "awaiting"
    /\ UNCHANGED <<reply, status, body>>

InfoRespond ==
    /\ pc = "awaiting"
    /\ endpoint = "info"
    /\ \E r \in InfoReplies : Respond(r, InfoHandler(param, r))

\* the symbol handler that would consult commonCompanies before calling out
SearchRequestAliasFirst ==
    /\ pc = "idle"
    /\ \E x \in CompanyNames :
         /\ param' = x
         /\ IF SearchKey(x) \in DOMAIN CommonCompanies
            THEN /\ calls' = calls
                 /\ pc' = "done"
                 /\ status' = 200
                 /\ body' = DirectMatch(x)
            ELSE /\ calls' = calls + 1
                 /\ pc' = "awaiting"
                 /\ UNCHANGED <<status, body>>
    /\ endpoint' = "search"
    /\ UNCHANGED reply

\* the symbol handler of server.js up to its await: one axios.get is issued
SearchRequest ==
    /\ pc = "idle"
    /\ \E x \in CompanyNames : param' = x
    /\ endpoint' = "search"
    /\ calls' = calls + 1
    /\ pc' = "awaiting"
    /\ UNCHANGED <<reply, status, body>>

\* the symbol handler that would call out again after a rejection
SearchRespondWithRetry ==
    /\ pc = "awaiting"
    /\ endpoint = "search"
    /\ \E r \in SearchReplies : Retry(r) \/ Respond(r, SearchHandler(param, r))

SearchRespond ==
    /\ pc = "awaiting"
    /\ endpoint = "search"
    /\ \E r \in SearchReplies : Respond(r, SearchHandler(param, r))

\* the symbol handler of nodejs-backend.js up to its await
LegacySearchRequest ==
    /\ pc = "idle"
    /\ \E x \in PlainNames : param' = x
    /\ endpoint' = "legacySearch"
    /\ calls' = calls + 1
    /\ pc' = "awaiting"
    /\ UNCHANGED <<reply, status, body>>

LegacySearchRespond ==
    /\ pc = "awaiting"
    /\ endpoint = "legacySearch"
    /\ \E r \in SearchReplies : Respond(r, LegacySearchHandler(param, r))

\* the request is over; the next one starts from nothing
Finish ==
    /\ pc = "done"
    /\ pc' = "idle"
    /\ endpoint' = "none"
    /\ param' = <<>>
    /\ calls' = 0
    /\ reply' = NoReply
    /\ status' = 0
    /\ body' = NoBody

Next ==
    \/ NewsRequest
    \/ NewsRespond
    \/ InfoRequest
    \/ InfoRespond
    \/ SearchRequest
    \/ SearchRespond
    \/ LegacySearchRequest
    \/ LegacySearchRespond
    \/ Finish

Spec == Init /\ [][Next]_vars

(***************************************************************************)
(* Properties.  The notions they use are stated here on their own, apart   *)
(* from the operators above that compute the handlers' answers.            *)
(***************************************************************************)
\* the lowercased, whitespace-trimmed form of a company name
NormalizedName(n) == Trim(ToLowerCase(n))

AliasKeys ==
    {AppleKey, <<"m","i","c","r","o","s","o","f","t">>, <<"g","o","o","g","l","e">>,
     <<"a","l","p","h","a","b","e","t">>, <<"t","e","s","l","a">>,
     <<"a","m","a","z","o","n">>, <<"m","e","t","a">>,
     <<"f","a","c","e","b","o","o","k">>, <<"n","e","t","f","l","i","x">>,
     <<"n","v","i","d","i","a">>}

AliasSymbol(k) ==
    CASE k = AppleKey -> <<"A","A","P","L">>
      [] k = <<"m","i","c","r","o","s","o","f","t">> -> <<"M","S","F","T">>
      [] k \in {<<"g","o","o","g","l","e">>, <<"a","l","p","h","a","b","e","t">>}
            -> <<"G","O","O","G","L">>
      [] k = <<"t","e","s","l","a">> -> <<"T","S","L","A">>
      [] k = <<"a","m","a","z","o","n">> -> <<"A","M","Z","N">>
      [] k \in {<<"m","e","t","a">>, <<"f","a","c","e","b","o","o","k">>}
            -> <<"M","E","T","A">>
      [] k = <<"n","e","t","f","l","i","x">> -> <<"N","F","L","X">>
      [] OTHER -> <<"N","V","D","A">>

SearchDone == pc = "done" /\ endpoint = "search"
AnySearchDone == pc = "done" /\ endpoint \in {"search", "legacySearch"}
NewsDone == pc = "done" /\ endpoint = "news"
InfoDone == pc = "done" /\ endpoint = "info"

IsAliasRequest == NormalizedName(param) \in AliasKeys

\* the upstream symbol search answered with an object payload carrying no
\* rate-limit marker
UpstreamAnswered == reply.kind = "ok" /\ ~Truthy(reply.Note)

IsAliasMatchBody ==
    /\ body.kind = "match"
    /\ body.symbol = AliasSymbol(NormalizedName(param))
    /\ body.type = Equity
    /\ body.region = UnitedStates
    /\ body.currency = USD
    /\ body.source = "direct_match"

IsFallbackBody ==
    /\ body.kind = "nullSymbol"
    /\ body.symbol = Undef
    /\ body.fallback = TRUE

\* C1: the symbol-resolution endpoint (either variant) answers 200 whatever
\* the upstream symbol search did, and after a transport failure the body has
\* a null symbol and fallback = true.
C1_ResolveAlways200 ==
    AnySearchDone =>
        /\ status = 200
        /\ (reply.kind = "fail" => IsFallbackBody)

C1_Witness ==
    /\ SearchDone
    /\ reply.kind = "fail"
    /\ status = 200
    /\ body.fallback = TRUE

C3_AliasNoUpstreamCall == (SearchDone /\ IsAliasRequest) => calls = 0

\* C3 amended: a request for an alias key completes with exactly one outbound
\* SYMBOL_SEARCH call, issued before the alias table is consulted.
C3_AliasOneUpstreamCall == (endpoint = "search" /\ IsAliasRequest) => calls = 1

C3_Witness ==
    /\ SearchDone
    /\ IsAliasRequest
    /\ body.source = "direct_match"
    /\ calls = 1

\* the raw article list the news provider delivered
UpstreamArticles == IF reply.articlesDefined THEN reply.articles ELSE <<>>

RemovedLetters ==
    <<{"r","R"}, {"e","E"}, {"m","M"}, {"o","O"}, {"v","V"}, {"e","E"}, {"d","D"}>>

\* the title contains "removed", whatever the case of its letters
ContainsRemoved(title) ==
    \E i \in 0..(Len(title) - 7) : \A k \in 1..7 : title[i + k] \in RemovedLetters[k]

\* non-empty title, non-empty source name, title neither [Removed] nor
\* containing "removed"
Survives(a) ==
    /\ a.title \notin {Undef, <<>>}
    /\ a.source.t = "obj"
    /\ a.source.name \notin {Undef, <<>>}
    /\ a.title # RemovedSentinel
    /\ ~ContainsRemoved(a.title)

SurvivorIdx == {i \in 1..Len(UpstreamArticles) : Survives(UpstreamArticles[i])}

\* the position upstream of the j-th surviving article
NthSurvivor(j) ==
    CHOOSE i \in SurvivorIdx : Cardinality({k \in SurvivorIdx : k < i}) = j - 1

ExpectedCount == IF Cardinality(SurvivorIdx) < 8 THEN Cardinality(SurvivorIdx) ELSE 8

\* C4: the news list is exactly the first 8 (or all, if fewer) surviving
\* articles in upstream order; so it has at most 8 elements, each survives the
\* filter, and it is an order-preserving subsequence of the input.
C4_NewsFirstEightSurvivors ==
    (NewsDone /\ status = 200) =>
        /\ Len(body.news) = ExpectedCount
        /\ Len(body.news) <= 8
        /\ \A j \in 1..ExpectedCount :
              LET a == UpstreamArticles[NthSurvivor(j)]
              IN  /\ body.news[j].title = a.title
                  /\ body.news[j].source = a.source.name
                  /\ body.news[j].url = a.url

C4_Witness ==
    /\ NewsDone
    /\ status = 200
    /\ Cardinality(SurvivorIdx) > 8
    /\ SurvivorIdx # 1..Len(UpstreamArticles)
    /\ Len(body.news) = 8

\* C5: fundamentals classification is a priority list: Note gives 429 even
\* with Information, Name or Symbol present; otherwise Information gives 400;
\* otherwise a payload with neither Name nor Symbol gives 404; otherwise the
\* answer is a 200 company-info body; a transport failure gives 500.
C5_InfoClassification ==
    InfoDone =>
        /\ reply.kind = "fail" => status = 500 /\ body.kind = "error"
        /\ reply.kind = "ok" =>
              IF Truthy(reply.Note) THEN status = 429 /\ body.kind = "error"
              ELSE IF Truthy(reply.Information) THEN status = 400 /\ body.kind = "error"
              ELSE IF ~Truthy(reply.Name) /\ ~Truthy(reply.Symbol)
                   THEN status = 404 /\ body.kind = "error"
              ELSE status = 200 /\ body.kind = "companyInfo"

C5_Witness ==
    /\ InfoDone
    /\ reply.kind = "ok"
    /\ Truthy(reply.Note)
    /\ Truthy(reply.Information)
    /\ Truthy(reply.Name)
    /\ status = 429

\* C6: on the news endpoint a failed upstream call with HTTP status 426
\* answers 426, and a call failed for any other reason answers 500; no failed
\* call answers 200 or anything else.
C6_NewsFailureStatus ==
    (NewsDone /\ reply.kind = "fail") =>
        /\ body.kind = "error"
        /\ reply.errStatus = 426 => status = 426
        /\ reply.errStatus # 426 => status = 500

C6_Witness ==
    /\ NewsDone
    /\ reply.kind = "fail"
    /\ reply.errStatus = 426
    /\ status = 426

\* the name of a raw match, '' when it has none
NameOf(m) == IF m.name = Undef THEN <<>> ELSE m.name

\* a raw match qualifies for a key: its lowercased name contains the key, its
\* region is United States and its type contains Equity
QualifiesFor(m, key) ==
    /\ m.t = "obj"
    /\ Includes(ToLowerCase(NameOf(m)), key)
    /\ m.region = UnitedStates
    /\ m.type # Undef
    /\ Includes(m.type, Equity)

\* the upstream answered with a match list
HasMatchList == UpstreamAnswered /\ reply.matchesKind = "array"

AppleIncCandidates ==
    {i \in 1..Len(reply.matches) :
        /\ QualifiesFor(reply.matches[i], AppleKey)
        /\ Includes(ToLowerCase(NameOf(reply.matches[i])), AppleInc)}

FirstAppleInc == CHOOSE i \in AppleIncCandidates : \A j \in AppleIncCandidates : i <= j

AppleTieBreakCase ==
    /\ SearchDone
    /\ NormalizedName(param) = AppleKey
    /\ HasMatchList
    /\ AppleIncCandidates # {}

AsRawArticle(p) ==
    [title       |-> p.title,
     source      |-> SourceStr(p.source),
     publishedAt |-> Undef,
     description |-> Undef,
     url         |-> p.url,
     urlToImage  |-> Undef]

OutputAsInput == [j \in 1..Len(body.news) |-> AsRawArticle(body.news[j])]

\* the raw articles the step kept
KeptRawArticles == [j \in 1..ExpectedCount |-> UpstreamArticles[NthSurvivor(j)]]

\* C8 as stated: the filter/format step applied to its own output returns
\* that same list.
C8_FormatIdempotentOnOutput ==
    (NewsDone /\ status = 200) => FormatNews(OutputAsInput) = body.news

\* C8 amended: the step is idempotent on the raw side only: applied to the
\* raw articles it kept it returns the same output, but applied to its own
\* output (PublicArticle records, whose source is a plain string without a
\* name) it returns the empty list.
C8_FormatOfOutputIsEmpty ==
    (NewsDone /\ status = 200) =>
        /\ FormatNews(OutputAsInput) = <<>>
        /\ FormatNews(KeptRawArticles) = body.news

C8_Witness ==
    /\ NewsDone
    /\ status = 200
    /\ Len(body.news) > 1
    /\ Len(body.news) < Len(UpstreamArticles)

QualifyingIdx ==
    {i \in 1..Len(reply.matches) : QualifiesFor(reply.matches[i], NormalizedName(param))}

\* the qualifying match of minimal name length, the earliest of them
ShortestQualifying ==
    CHOOSE i \in QualifyingIdx :
        \A j \in QualifyingIdx :
            \/ Len(NameOf(reply.matches[i])) < Len(NameOf(reply.matches[j]))
            \/ /\ Len(NameOf(reply.matches[i])) = Len(NameOf(reply.matches[j]))
               /\ i <= j

ShortestNameCase ==
    /\ SearchDone
    /\ NormalizedName(param) \notin AliasKeys
    /\ HasMatchList
    /\ \A i \in 1..Len(reply.matches) : reply.matches[i].t = "obj"
    /\ QualifyingIdx # {}

RawMatchListEmpty ==
    \/ reply.matchesKind = "undef"
    \/ reply.matchesKind = "array" /\ Len(reply.matches) = 0

\* a raw match passes the region+type filter
IsUnitedStatesEquity(m) ==
    /\ m.t = "obj"
    /\ m.region = UnitedStates
    /\ m.type # Undef
    /\ Includes(m.type, Equity)

\* a resolution that reached the match list: the upstream is not
\* rate-limited and, where there is an alias table, the key is no alias
ReachedMatchList ==
    /\ AnySearchDone
    /\ UpstreamAnswered
    /\ endpoint = "search" => NormalizedName(param) \notin AliasKeys

\* a non-empty list of match objects none of which is a United States equity
FirstMatchFallbackCase ==
    /\ ReachedMatchList
    /\ reply.matchesKind = "array"
    /\ Len(reply.matches) > 0
    /\ \A i \in 1..Len(reply.matches) :
          reply.matches[i].t = "obj" /\ ~IsUnitedStatesEquity(reply.matches[i])

IsNoMatchBody ==
    /\ body.kind = "nullSymbol"
    /\ body.symbol = Undef
    /\ body.suggestion = TRUE
    /\ body.fallback = FALSE

====
